---- MODULE Spec2Model ----
(***************************************************************************)
(* Model of the session relay server (src/server.py): the session table    *)
(* active_sessions, the Socket.IO rooms, and the event handlers connect,   *)
(* disconnect, register_desktop, register_mobile and upload_photo.         *)
(* The server runs every handler in a task of its own and takes no lock:   *)
(* a handler is a sequence of steps, one per access to the shared state    *)
(* (active_sessions, the rooms), and the steps of different handlers       *)
(* interleave (Spec).  SpecSeq is the same program with handlers run one   *)
(* at a time.                                                              *)
(***************************************************************************)
EXTENDS Integers, Sequences, FiniteSets, TLC

(* ---------------------------- bounds ---------------------------------- *)
\* number of transport connections (request.sid values) that ever exist
NumConns == 2
\* number of events (connects, disconnects, messages, GET /health) the server
\* is sent in a behaviour
MaxEvents == 6

Conns == 1..NumConns

(* --------------------------- input domains ---------------------------- *)
\* data.get(key) of an absent key yields None; modelled by this marker
Missing == "<missing>"

SessionIds == {"s1", "s2"}
\* values the key session_id of a payload may carry
SessionInputs == SessionIds \cup {"", Missing}
\* values the key photo of a payload may carry (base64 text)
PhotoInputs == {"QUJD", ""}
\* values the key mime_type of a payload may carry
MimeInputs == {"image/png", "image/gif", Missing}

\* A JSON value for file_size: a number, a non-number (string/null), or absent
Num(n) == [kind |-> "int", v |-> n]
NotANumber == [kind |-> "str", v |-> 0]
NoSize == [kind |-> "missing", v |-> 0]

(* ------------------------ program constants --------------------------- *)
max_size == 10 * 1024 * 1024
allowed_types == {"image/jpeg", "image/png", "image/jpg", "image/webp"}

SizeInputs == {Num(2048), Num(max_size), Num(max_size + 1), NotANumber}
\* the well-formed payload the other payloads deviate from
BasePhoto == "QUJD"
BaseMime == "image/png"
BaseSize == Num(2048)

\* inputs of the validation specification
ValidateMimes == allowed_types \cup {"image/gif", "text/plain", ""}
ValidateSizes == {0, 1, 2048, max_size - 1, max_size, max_size + 1, 11 * 1024 * 1024, 15 * 1024 * 1024}

MsgNoSession == "No session ID provided"
MsgDesktopRegistered == "Desktop registered successfully"
MsgMobileConnected == "Connected to desktop"
MsgDesktopNotFound == "Desktop not found. Please check if the app is running."
MsgDesktopNotConnected == "Desktop not connected. Please ensure the desktop app is running."
MsgNoPhoto == "No photo data received"
MsgInvalidType(mime_type) == "Invalid file type: " \o mime_type
MsgTooLarge == "File too large (max 10MB)"
MsgSent == "Photo sent successfully"
MsgFailed == "Failed to send photo to desktop"


(* ------------------------------ state --------------------------------- *)
VARIABLES
    conn,             \* conn[c]: "new" (not yet connected), "open", "closing"
                      \* (handle_disconnect of c has started), "closed" (the
                      \* server has dropped c)
    active_sessions,  \* the dict {session_id: desktop_sid}
    key_order,        \* the entries of the dict active_sessions: its keys in the
                      \* order of insertion, and the slots of deleted keys
    dk_usable,        \* the number of entries the dict's table has room for yet
    rooms,            \* Socket.IO rooms: rooms[<<kind, session_id>>] is a set of sids
    task,             \* task[c]: the handler of a message of c that has started and
                      \* not finished, with the payload of the message
    scan,             \* scan[c]: where handle_disconnect of c stands
    handled,          \* the number of events whose handling has started
    event,            \* the step taken last: handler, step, connection, payload
    emitted,          \* the events emitted by the last step, in order
    raised,           \* the exception met by the last step
    v_mime, v_size, v_result   \* the validation specification's input and result

vars == <<conn, active_sessions, key_order, dk_usable, rooms, task, scan, handled,
          event, emitted, raised, v_mime, v_size, v_result>>
relayVars == <<conn, active_sessions, key_order, dk_usable, rooms, task, scan, handled,
               event, emitted, raised>>
validateVars == <<v_mime, v_size, v_result>>

RoomKeys == {"desktop", "mobile"} \X SessionIds
\* faulty variant: one desktop room for all sessions
desktop_room_Shared(session_id) == <<"desktop", "s1">>
desktop_room(session_id) == <<"desktop", session_id>>
mobile_room(session_id) == <<"mobile", session_id>>

(* ----------------------------- helpers -------------------------------- *)
\* faulty variant: only None is false (a test "is not None")
Truthy_NotNone(x) == x # Missing

\* Python truthiness of a string-or-None value: None and "" are false
Truthy(x) == x # Missing /\ x # ""

\* data.get(key, default)
GetOr(x, default) == IF x = Missing THEN default ELSE x
GetSize(x) == IF x.kind = "missing" THEN Num(0) ELSE x

\* emit(name, {'message': m}) : unicast to the connection that sent the event
Reply(sid, name, m) == [to |-> sid, event |-> name, data |-> [message |-> m]]

Min(S) == CHOOSE x \in S : \A y \in S : x <= y
RECURSIVE SeqOf(_)
SeqOf(S) == IF S = {} THEN <<>> ELSE <<Min(S)>> \o SeqOf(S \ {Min(S)})

\* faulty variant: the photo is sent to the room a second time (a retry)
EmitToRoom_Twice(r, name, data) ==
    LET members == SeqOf(rooms[r])
        once == [i \in 1..Len(members) |-> [to |-> members[i], event |-> name, data |-> data]]
    IN once \o once

\* faulty variant: the declared size is not forwarded
EmitToRoom_Remeasured(r, name, data) ==
    LET members == SeqOf(rooms[r])
    IN [i \in 1..Len(members) |->
          [to |-> members[i], event |-> name,
           data |-> [data EXCEPT !.file_size = Num(0)]]]

\* socketio.emit(name, data, room=r): one delivery per member of the room
EmitToRoom(r, name, data) ==
    LET members == SeqOf(rooms[r])
    IN [i \in 1..Len(members) |-> [to |-> members[i], event |-> name, data |-> data]]

\* faulty variant: the joining connection replaces the members of the room
JoinRoom_Replace(sid, r) ==
    [k \in DOMAIN rooms \cup {r} |-> IF k = r THEN {sid} ELSE rooms[k]]

\* join_room(r) by the connection sid
JoinRoom(sid, r) ==
    [k \in DOMAIN rooms \cup {r} |->
        IF k = r THEN (IF r \in DOMAIN rooms THEN rooms[r] ELSE {}) \cup {sid} ELSE rooms[k]]

\* faulty variant: the first registration of a session id is kept
SetSession_FirstWins(session_id, sid) ==
    IF session_id \in DOMAIN active_sessions THEN active_sessions
    ELSE [k \in DOMAIN active_sessions \cup {session_id} |->
            IF k = session_id THEN sid ELSE active_sessions[k]]

\* active_sessions[session_id] = sid
SetSession(session_id, sid) ==
    [k \in DOMAIN active_sessions \cup {session_id} |->
        IF k = session_id THEN sid ELSE active_sessions[k]]

\* faulty variant: the session id is not looked up in active_sessions
SessionKnown_NoLookup(session_id) == Truthy(session_id)

\* the session check of handle_upload (line 115), negated
SessionKnown(session_id) == Truthy(session_id) /\ session_id \in DOMAIN active_sessions

\* faulty variant: the size is checked before the type
Validate_SizeFirst(mime_type, file_size) ==
    IF file_size.kind = "int" /\ file_size.v > max_size THEN MsgTooLarge
    ELSE IF mime_type \notin allowed_types THEN MsgInvalidType(mime_type)
    ELSE IF file_size.kind # "int" THEN "TypeError"
    ELSE "ok"

\* faulty variant: the size ceiling itself is rejected
Validate_Strict(mime_type, file_size) ==
    IF mime_type \notin allowed_types THEN MsgInvalidType(mime_type)
    ELSE IF file_size.kind # "int" THEN "TypeError"
    ELSE IF file_size.v >= max_size THEN MsgTooLarge
    ELSE "ok"

\* the validation of lines 126-138: "ok" or the message of the rejection;
\* "TypeError" when the comparison file_size > max_size is not defined
Validate(mime_type, file_size) ==
    IF mime_type \notin allowed_types THEN MsgInvalidType(mime_type)
    ELSE IF file_size.kind # "int" THEN "TypeError"
    ELSE IF file_size.v > max_size THEN MsgTooLarge
    ELSE "ok"


\* the slot of a deleted key in the entries of the dict
Deleted == "<deleted>"

\* the smallest table of a dict has 8 slots
PyDict_MINSIZE == 8
\* the number of entries a table of n slots takes
USABLE_FRACTION(n) == (2 * n) \div 3
\* the smallest power of two from p on that is greater than y
RECURSIVE PowerAbove(_, _)
PowerAbove(p, y) == IF p > y THEN p ELSE PowerAbove(2 * p, y)
\* the number of slots of the table built for minsize entries:
\* 2 ^ bit_length(((minsize | 8) - 1) | 7)
KeySize(minsize) ==
    LET or8 == IF (minsize \div 8) % 2 = 1 THEN minsize ELSE minsize + 8
    IN PowerAbove(PyDict_MINSIZE, ((or8 - 1) \div 8) * 8 + 7)
\* the entries of the table rebuilt: the slots of deleted keys are dropped
Compacted == SelectSeq(key_order, LAMBDA k : k # Deleted)

\* active_sessions[session_id] = sid seen from the entries of the dict: a key
\* that is overwritten keeps its slot, a new key takes the next slot; when
\* the table has no room left it is rebuilt first, for three times the keys
\* the dict holds
SetOrder(session_id) ==
    IF session_id \in DOMAIN active_sessions THEN key_order
    ELSE IF dk_usable > 0 THEN Append(key_order, session_id)
    ELSE Append(Compacted, session_id)
\* the room left in the table after active_sessions[session_id] = sid
SetUsable(session_id) ==
    LET used == Cardinality(DOMAIN active_sessions)
    IN IF session_id \in DOMAIN active_sessions THEN dk_usable
       ELSE IF dk_usable > 0 THEN dk_usable - 1
       ELSE USABLE_FRACTION(KeySize(3 * used)) - used - 1

\* del active_sessions[session_id]
DelSession(session_id) ==
    [s \in DOMAIN active_sessions \ {session_id} |-> active_sessions[s]]
\* the slot of a deleted key stays, empty
DelOrder(session_id) ==
    [i \in 1..Len(key_order) |-> IF key_order[i] = session_id THEN Deleted ELSE key_order[i]]
\* the first slot from p on that holds a key, Len(key_order) + 1 when none does
RECURSIVE NextSlot(_)
NextSlot(p) ==
    IF p > Len(key_order) THEN Len(key_order) + 1
    ELSE IF key_order[p] # Deleted THEN p
    ELSE NextSlot(p + 1)

(* ----------------------------- actions -------------------------------- *)
NoData == [session_id |-> Missing]
\* no handler of a message of the connection is running
Idle == [name |-> "idle", data |-> NoData]
\* handle_disconnect of the connection is not running
NoScan == [pc |-> "none", size |-> 0, pos |-> 0, len |-> 0, list |-> <<>>]
\* handle_disconnect has ended (returned or raised); the server's clean-up is due
ScanOver == [pc |-> "return", size |-> 0, pos |-> 0, len |-> 0, list |-> <<>>]

Step(name, step, sid, data) == [name |-> name, step |-> step, sid |-> sid, data |-> data]

\* The server starts the handler of a message of a connection it still knows;
\* of the messages of one connection one is handled at a time.
CanStart(sid) == conn[sid] \in {"open", "closing"} /\ task[sid] = Idle

\* sids are fresh: the k-th connection to arrive is named k
handle_connect(sid) ==
    /\ conn[sid] = "new"
    /\ \A c \in Conns : c < sid => conn[c] # "new"
    /\ conn' = [conn EXCEPT ![sid] = "open"]
    /\ event' = Step("connect", "all", sid, NoData)
    /\ emitted' = <<>>
    /\ raised' = "none"
    /\ UNCHANGED <<active_sessions, key_order, dk_usable, rooms, task, scan>>

\* faulty variant: every session the connection registered is removed,
\* whoever holds it now
sessions_to_remove_Registered(sid) ==
    LET session_id == key_order[NextSlot(scan[sid].pos)]
    IN IF sid \in rooms[desktop_room(session_id)] THEN Append(scan[sid].list, session_id)
       ELSE scan[sid].list

\* faulty variant: the disconnect handler removes every session
sessions_to_remove_All(sid) == Append(scan[sid].list, key_order[NextSlot(scan[sid].pos)])

\* the list of line 71 after the next item of active_sessions.items(): its
\* key is added when its value is the connection
sessions_to_remove(sid) ==
    LET session_id == key_order[NextSlot(scan[sid].pos)]
    IN IF active_sessions[session_id] = sid THEN Append(scan[sid].list, session_id)
       ELSE scan[sid].list

\* handle_disconnect, line 71: the iteration over active_sessions.items()
\* starts; the iterator remembers the size of the dict (size) and counts the
\* items it has yet to yield (len)
handle_disconnect_iter(sid) ==
    /\ conn[sid] = "open"
    /\ conn' = [conn EXCEPT ![sid] = "closing"]
    /\ scan' = [scan EXCEPT ![sid] = [pc |-> "scan", size |-> Cardinality(DOMAIN active_sessions),
                                      pos |-> 1,
                                      len |-> Cardinality(DOMAIN active_sessions),
                                      list |-> <<>>]]
    /\ event' = Step("disconnect", "iter", sid,
                     [session_id |-> Missing, sessions_to_remove |-> <<>>])
    /\ emitted' = <<>>
    /\ raised' = "none"
    /\ UNCHANGED <<active_sessions, key_order, dk_usable, rooms, task>>

\* line 71, the iterator is asked for the next item: RuntimeError
\* ("dictionary changed size during iteration") when the dict has another
\* size than when the iteration started; the list is complete when no slot
\* with a key is left; RuntimeError ("dictionary keys changed during
\* iteration") when there is one although the iterator has yielded as many
\* items as the dict had; otherwise the item is tested.  An exception ends
\* the handler there
handle_disconnect_scan(sid) ==
    /\ scan[sid].pc = "scan"
    /\ IF Cardinality(DOMAIN active_sessions) # scan[sid].size
       THEN /\ scan' = [scan EXCEPT ![sid] = ScanOver]
            /\ raised' = "RuntimeError"
            /\ event' = Step("disconnect", "scan", sid,
                             [session_id |-> Missing, sessions_to_remove |-> <<>>])
       ELSE IF NextSlot(scan[sid].pos) > Len(key_order)
       THEN /\ scan' = [scan EXCEPT ![sid] = [pc |-> "del", size |-> 0, pos |-> 0,
                                              len |-> 0, list |-> scan[sid].list]]
            /\ raised' = "none"
            /\ event' = Step("disconnect", "scan", sid,
                             [session_id |-> Missing,
                              sessions_to_remove |-> scan[sid].list])
       ELSE IF scan[sid].len = 0
       THEN /\ scan' = [scan EXCEPT ![sid] = ScanOver]
            /\ raised' = "RuntimeError"
            /\ event' = Step("disconnect", "scan", sid,
                             [session_id |-> Missing, sessions_to_remove |-> <<>>])
       ELSE /\ scan' = [scan EXCEPT ![sid] = [@ EXCEPT !.pos = NextSlot(scan[sid].pos) + 1,
                                                       !.len = @ - 1,
                                                       !.list = sessions_to_remove(sid)]]
            /\ raised' = "none"
            /\ event' = Step("disconnect", "scan", sid,
                             [session_id |-> key_order[NextSlot(scan[sid].pos)],
                              sessions_to_remove |-> sessions_to_remove(sid)])
    /\ emitted' = <<>>
    /\ UNCHANGED <<conn, active_sessions, key_order, dk_usable, rooms, task>>

\* line 73: del active_sessions[session_id] for the next element of the list,
\* whatever the entry holds by now; KeyError ends the handler when the key is
\* gone
handle_disconnect_del(sid) ==
    /\ scan[sid].pc = "del"
    /\ scan[sid].list # <<>>
    /\ LET session_id == Head(scan[sid].list)
       IN /\ event' = Step("disconnect", "del", sid,
                           [session_id |-> session_id,
                            sessions_to_remove |-> scan[sid].list])
          /\ IF session_id \in DOMAIN active_sessions
             THEN /\ active_sessions' = DelSession(session_id)
                  /\ key_order' = DelOrder(session_id)
                  /\ scan' = [scan EXCEPT ![sid] =
                                IF Tail(scan[sid].list) = <<>> THEN ScanOver
                                ELSE [@ EXCEPT !.list = Tail(@)]]
                  /\ raised' = "none"
             ELSE /\ scan' = [scan EXCEPT ![sid] = ScanOver]
                  /\ raised' = "KeyError"
                  /\ UNCHANGED <<active_sessions, key_order>>
    /\ emitted' = <<>>
    /\ UNCHANGED <<conn, dk_usable, rooms, task>>

\* the handler has ended; the Socket.IO server drops the sid from every room
handle_disconnect_return(sid) ==
    /\ \/ scan[sid] = ScanOver
       \/ scan[sid].pc = "del" /\ scan[sid].list = <<>>
    /\ conn' = [conn EXCEPT ![sid] = "closed"]
    /\ rooms' = [r \in DOMAIN rooms |-> rooms[r] \ {sid}]
    /\ scan' = [scan EXCEPT ![sid] = NoScan]
    /\ event' = Step("disconnect", "return", sid,
                     [session_id |-> Missing, sessions_to_remove |-> <<>>,
                      left_rooms |-> {r \in DOMAIN rooms : sid \in rooms[r]}])
    /\ emitted' = <<>>
    /\ raised' = "none"
    /\ UNCHANGED <<active_sessions, key_order, dk_usable, task>>

\* handle_register_desktop up to join_room (lines 79-81), or to its end when
\* there is no session id (line 86)
handle_register_desktop_join(sid, data) ==
    /\ CanStart(sid)
    /\ event' = Step("register_desktop", "join", sid, data)
    /\ raised' = "none"
    /\ IF Truthy(data.session_id)
       THEN /\ rooms' = JoinRoom(sid, desktop_room(data.session_id))
            /\ task' = [task EXCEPT ![sid] = [name |-> "register_desktop", data |-> data]]
            /\ emitted' = <<>>
       ELSE /\ emitted' = <<Reply(sid, "registration_error", MsgNoSession)>>
            /\ UNCHANGED <<rooms, task>>
    /\ UNCHANGED <<conn, active_sessions, key_order, dk_usable, scan>>

\* handle_register_desktop from line 82: the entry is written and the sender
\* answered, whatever has become of the connection
handle_register_desktop_set(sid) ==
    /\ task[sid].name = "register_desktop"
    /\ active_sessions' = SetSession(task[sid].data.session_id, sid)
    /\ key_order' = SetOrder(task[sid].data.session_id)
    /\ dk_usable' = SetUsable(task[sid].data.session_id)
    /\ task' = [task EXCEPT ![sid] = Idle]
    /\ event' = Step("register_desktop", "set", sid, task[sid].data)
    /\ emitted' = <<Reply(sid, "registration_success", MsgDesktopRegistered)>>
    /\ raised' = "none"
    /\ UNCHANGED <<conn, rooms, scan>>

\* the check "if desktop is connected" of lines 96-100
MobileReply(sid, session_id) ==
    IF session_id \in DOMAIN active_sessions
    THEN <<Reply(sid, "registration_success", MsgMobileConnected)>>
    ELSE <<Reply(sid, "registration_error", MsgDesktopNotFound)>>

\* handle_register_mobile up to join_room (lines 91-93), or to its end when
\* there is no session id (line 102)
handle_register_mobile_join(sid, data) ==
    /\ CanStart(sid)
    /\ event' = Step("register_mobile", "join", sid, data)
    /\ raised' = "none"
    /\ IF Truthy(data.session_id)
       THEN /\ rooms' = JoinRoom(sid, mobile_room(data.session_id))
            /\ task' = [task EXCEPT ![sid] = [name |-> "register_mobile", data |-> data]]
            /\ emitted' = <<>>
       ELSE /\ emitted' = <<Reply(sid, "registration_error", MsgNoSession)>>
            /\ UNCHANGED <<rooms, task>>
    /\ UNCHANGED <<conn, active_sessions, key_order, dk_usable, scan>>

\* handle_register_mobile from line 97: active_sessions is read and the
\* sender answered
handle_register_mobile_check(sid) ==
    /\ task[sid].name = "register_mobile"
    /\ task' = [task EXCEPT ![sid] = Idle]
    /\ event' = Step("register_mobile", "check", sid, task[sid].data)
    /\ emitted' = MobileReply(sid, task[sid].data.session_id)
    /\ raised' = "none"
    /\ UNCHANGED <<conn, active_sessions, key_order, dk_usable, rooms, scan>>

\* The exceptions an emit inside the try block (lines 141-151) may raise:
\* "relay" is socketio.emit('photo_received') raising, "ack" is
\* emit('upload_success') raising; both are caught by the except clause.
RaiseChoices == {"none", "relay", "ack"}

\* the checks of lines 115-138 in their order: "ok", the message of the
\* rejection, or "TypeError"
UploadVerdict(data) ==
    IF ~SessionKnown(data.session_id) THEN MsgDesktopNotConnected
    ELSE IF ~Truthy(data.photo) THEN MsgNoPhoto
    ELSE Validate(GetOr(data.mime_type, "image/jpeg"), GetSize(data.file_size))

\* the payload of photo_received (lines 142-146)
PhotoOf(data) == [photo |-> data.photo, mime_type |-> GetOr(data.mime_type, "image/jpeg"),
                  file_size |-> GetSize(data.file_size)]

\* faulty variant: an upload is accepted from a connection in the mobile room
\* of its session only
handle_upload_check_MobileOnly(sid, data) ==
    /\ CanStart(sid)
    /\ event' = Step("upload_photo", "check", sid, data)
    /\ raised' = "none"
    /\ IF data.session_id \in SessionIds /\ sid \in rooms[mobile_room(data.session_id)]
          /\ UploadVerdict(data) = "ok"
       THEN /\ task' = [task EXCEPT ![sid] = [name |-> "upload_photo", data |-> data]]
            /\ emitted' = <<>>
       ELSE /\ emitted' = <<Reply(sid, "upload_error", MsgDesktopNotConnected)>>
            /\ UNCHANGED task
    /\ UNCHANGED <<conn, active_sessions, key_order, dk_usable, rooms, scan>>

\* the answer of lines 115-138 to the sender: the rejection, or nothing when
\* the upload passes the checks or the comparison of line 134 raises
CheckOutcome(sid, data) ==
    IF UploadVerdict(data) \in {"ok", "TypeError"} THEN <<>>
    ELSE <<Reply(sid, "upload_error", UploadVerdict(data))>>

\* handle_upload up to line 138: active_sessions is read once (line 115)
\* and the payload validated; a rejected upload is answered here
handle_upload_check(sid, data) ==
    /\ CanStart(sid)
    /\ event' = Step("upload_photo", "check", sid, data)
    /\ emitted' = CheckOutcome(sid, data)
    /\ raised' = IF UploadVerdict(data) = "TypeError" THEN "TypeError" ELSE "none"
    /\ task' = IF UploadVerdict(data) = "ok"
               THEN [task EXCEPT ![sid] = [name |-> "upload_photo", data |-> data]]
               ELSE task
    /\ UNCHANGED <<conn, active_sessions, key_order, dk_usable, rooms, scan>>

\* the events of lines 141-155 for the outcome exc of the try block
RelayOutcome(sid, data, exc) ==
    LET sent == EmitToRoom(desktop_room(data.session_id), "photo_received", PhotoOf(data))
    IN IF exc = "relay" THEN <<Reply(sid, "upload_error", MsgFailed)>>
       ELSE IF exc = "ack" THEN sent \o <<Reply(sid, "upload_error", MsgFailed)>>
       ELSE sent \o <<Reply(sid, "upload_success", MsgSent)>>

\* faulty variant: a relay that raises drops the session of the upload
handle_upload_relay_Forget(sid, exc) ==
    /\ task[sid].name = "upload_photo"
    /\ task' = [task EXCEPT ![sid] = Idle]
    /\ event' = Step("upload_photo", "relay", sid, task[sid].data)
    /\ raised' = exc
    /\ emitted' = RelayOutcome(sid, task[sid].data, exc)
    /\ IF exc # "none" /\ task[sid].data.session_id \in DOMAIN active_sessions
       THEN /\ active_sessions' = DelSession(task[sid].data.session_id)
            /\ key_order' = DelOrder(task[sid].data.session_id)
            /\ UNCHANGED dk_usable
       ELSE UNCHANGED <<active_sessions, key_order, dk_usable>>
    /\ UNCHANGED <<conn, rooms, scan>>

\* handle_upload from line 141: the photo is emitted to the room as it is
\* now and the sender answered
handle_upload_relay(sid, exc) ==
    /\ task[sid].name = "upload_photo"
    /\ task' = [task EXCEPT ![sid] = Idle]
    /\ event' = Step("upload_photo", "relay", sid, task[sid].data)
    /\ raised' = exc
    /\ emitted' = RelayOutcome(sid, task[sid].data, exc)
    /\ UNCHANGED <<conn, active_sessions, key_order, dk_usable, rooms, scan>>

\* GET /health: the body of the response; the request comes from no
\* Socket.IO connection (sid 0)
health ==
    /\ event' = Step("health", "all", 0, NoData)
    /\ emitted' = <<[to |-> 0, event |-> "health",
                     data |-> [status |-> "healthy",
                               active_sessions |-> Cardinality(DOMAIN active_sessions)]]>>
    /\ raised' = "none"
    /\ UNCHANGED <<conn, active_sessions, key_order, dk_usable, rooms, task, scan>>

RegisterData == [session_id : SessionInputs]
\* the payloads of register_mobile: mobiles are sent to session s1
MobileRegisterData == [session_id : {"s1", "", Missing}]
\* the payloads of upload_photo: the well-formed payload for every session
\* input, and for session s1 every deviation of one field from it
UploadData ==
    [session_id : SessionInputs, photo : {BasePhoto}, mime_type : {BaseMime}, file_size : {BaseSize}]
    \cup [session_id : {"s1"}, photo : PhotoInputs, mime_type : {BaseMime}, file_size : {BaseSize}]
    \cup [session_id : {"s1"}, photo : {BasePhoto}, mime_type : MimeInputs, file_size : {BaseSize}]
    \cup [session_id : {"s1"}, photo : {BasePhoto}, mime_type : {BaseMime}, file_size : SizeInputs]
    \cup [session_id : {"s1"}, photo : PhotoInputs, mime_type : {"image/gif"},
           file_size : {Num(max_size + 1)}]

\* an event arrives and the first step of its handler is taken
Arrives == handled < MaxEvents /\ handled' = handled + 1 /\ UNCHANGED validateVars
\* a handler that has started takes its next step
GoesOn == UNCHANGED <<handled, v_mime, v_size, v_result>>

Connect == \E sid \in Conns : handle_connect(sid) /\ Arrives
DisconnectIter == \E sid \in Conns : handle_disconnect_iter(sid) /\ Arrives
DisconnectScan == \E sid \in Conns : handle_disconnect_scan(sid) /\ GoesOn
DisconnectDel == \E sid \in Conns : handle_disconnect_del(sid) /\ GoesOn
DisconnectReturn == \E sid \in Conns : handle_disconnect_return(sid) /\ GoesOn
RegisterDesktopJoin == \E sid \in Conns, data \in RegisterData :
                           handle_register_desktop_join(sid, data) /\ Arrives
RegisterDesktopSet == \E sid \in Conns : handle_register_desktop_set(sid) /\ GoesOn
RegisterMobileJoin == \E sid \in Conns, data \in MobileRegisterData :
                           handle_register_mobile_join(sid, data) /\ Arrives
RegisterMobileCheck == \E sid \in Conns : handle_register_mobile_check(sid) /\ GoesOn
UploadCheck == \E sid \in Conns, data \in UploadData : handle_upload_check(sid, data) /\ Arrives
UploadRelay == \E sid \in Conns, exc \in RaiseChoices : handle_upload_relay(sid, exc) /\ GoesOn
Health == health /\ Arrives

InitRelay ==
    /\ conn = [c \in Conns |-> "new"]
    /\ active_sessions = <<>>
    /\ key_order = <<>>
    /\ dk_usable = USABLE_FRACTION(PyDict_MINSIZE)
    /\ rooms = [r \in RoomKeys |-> {}]
    /\ task = [c \in Conns |-> Idle]
    /\ scan = [c \in Conns |-> NoScan]
    /\ handled = 0
    /\ event = Step("start", "all", 0, NoData)
    /\ emitted = <<>>
    /\ raised = "none"

Init ==
    /\ InitRelay
    /\ v_mime = "image/jpeg"
    /\ v_size = Num(0)
    /\ v_result = "none"

Next == Connect \/ DisconnectIter \/ DisconnectScan \/ DisconnectDel \/ DisconnectReturn
           \/ RegisterDesktopJoin \/ RegisterDesktopSet
           \/ RegisterMobileJoin \/ RegisterMobileCheck
           \/ UploadCheck \/ UploadRelay \/ Health

Spec == Init /\ [][Next]_vars

(* ------------------- handlers run one at a time ----------------------- *)
\* no handler is running
Quiet == \A c \in Conns : task[c] = Idle /\ scan[c] = NoScan

ConnectSeq == Quiet /\ Connect
DisconnectIterSeq == Quiet /\ DisconnectIter
RegisterDesktopJoinSeq == Quiet /\ RegisterDesktopJoin
RegisterMobileJoinSeq == Quiet /\ RegisterMobileJoin
UploadCheckSeq == Quiet /\ UploadCheck
HealthSeq == Quiet /\ Health

NextSeq == ConnectSeq \/ DisconnectIterSeq \/ DisconnectScan \/ DisconnectDel
              \/ DisconnectReturn \/ RegisterDesktopJoinSeq \/ RegisterDesktopSet
              \/ RegisterMobileJoinSeq \/ RegisterMobileCheck
              \/ UploadCheckSeq \/ UploadRelay \/ HealthSeq

SpecSeq == Init /\ [][NextSeq]_vars

(* ------------------- the validation specification --------------------- *)
InitValidate ==
    /\ InitRelay
    /\ v_mime \in ValidateMimes
    /\ v_size \in {Num(n) : n \in ValidateSizes}
    /\ v_result = "none"

RunValidate ==
    /\ v_result = "none"
    /\ v_result' = Validate(v_mime, v_size)
    /\ UNCHANGED <<v_mime, v_size>>
    /\ UNCHANGED relayVars

NextValidate == RunValidate

SpecValidate == InitValidate /\ [][NextValidate]_vars

(* ====================== properties of the relay ======================== *)
\* the last step was the named step of the named handler
IsStep(name, step) == event.name = name /\ event.step = step
\* positions of emitted holding a photo_received
PhotoIdx == {i \in 1..Len(emitted) : emitted[i].event = "photo_received"}
\* positions of emitted holding the named event sent to connection c
SentTo(c, name) == {i \in 1..Len(emitted) : emitted[i].to = c /\ emitted[i].event = name}
\* the holder of session s in table f, 0 when s is not a key
Holder(f, s) == IF s \in DOMAIN f THEN f[s] ELSE 0
\* the payload passes the checks on photo, type and size
WellFormed(data) ==
    /\ data.photo \notin {"", Missing}
    /\ data.mime_type \in {"image/jpeg", "image/jpg", "image/png", "image/webp"}
    /\ data.file_size.kind = "int"
    /\ data.file_size.v <= 10485760
\* the photo_received that forwards an upload unmodified
Forwarded(data) == [photo |-> data.photo, mime_type |-> data.mime_type,
                    file_size |-> data.file_size]

\* C1: when register_desktop(s) of a connection writes its entry,
\* active_sessions[s] is that connection, also when another connection held s
\* before (last registration wins); the entry of s changes only by a
\* register_desktop(s) or by a deletion of s in a disconnect handler.
C1_LastRegistrationWins ==
    [][\A s \in SessionIds :
         /\ (event'.name = "register_desktop" /\ event'.step = "set"
               /\ event'.data.session_id = s)
               => Holder(active_sessions', s) = event'.sid
         /\ Holder(active_sessions', s) # Holder(active_sessions, s)
               => \/ /\ event'.name = "register_desktop"
                     /\ event'.step = "set"
                     /\ event'.data.session_id = s
                  \/ /\ event'.name = "disconnect"
                     /\ event'.step = "del"
                     /\ event'.data.session_id = s]_vars

\* a second connection has just registered a session id that a first, still
\* connected, connection held
C1_Witness ==
    /\ IsStep("register_desktop", "set")
    /\ \E s \in SessionIds, a \in Conns :
         /\ event.data.session_id = s
         /\ a # event.sid
         /\ conn[a] = "open"
         /\ a \in rooms[<<"desktop", s>>]
         /\ task[a] = Idle
         /\ Holder(active_sessions, s) = event.sid

\* C2: for every session id s, room desktop_s (the receivers of photo_received
\* for s) has at most one member, and when no handler is running it is
\* active_sessions[s] when that exists.
C2_AtMostOneDesktop ==
    \A s \in SessionIds :
        /\ Cardinality(rooms[<<"desktop", s>>]) <= 1
        /\ (s \in DOMAIN active_sessions /\ Quiet)
              => rooms[<<"desktop", s>>] = {active_sessions[s]}

\* C3: once the disconnect of a connection D has been handled, no session id
\* is held by D (a session D registered and still held is absent), and an
\* upload for a session id absent from active_sessions is answered
\* 'Desktop not connected' and forwards nothing.
C3_DisconnectRemovesSession ==
    [][/\ (event'.name = "disconnect" /\ event'.step = "return")
             => \A s \in SessionIds : Holder(active_sessions', s) # event'.sid
       /\ (event'.name = "upload_photo" /\ event'.step = "check"
             /\ event'.data.session_id \in SessionIds
             /\ event'.data.session_id \notin DOMAIN active_sessions)
             => /\ emitted' = <<[to |-> event'.sid, event |-> "upload_error",
                      data |-> [message |-> "Desktop not connected. Please ensure the desktop app is running."]]>>
                /\ task'[event'.sid] = Idle]_vars

\* C4: an upload whose session_id is empty, missing or not a key of
\* active_sessions when the handler checks it emits no photo_received, then or
\* later: it is answered at the check, and only an upload that passed the
\* check goes on to the relay.
C4_UnknownSessionNotForwarded ==
    [][/\ (event'.name = "upload_photo" /\ event'.step = "check"
             /\ (event'.data.session_id \in {"", Missing}
                    \/ event'.data.session_id \notin DOMAIN active_sessions))
             => /\ \A i \in 1..Len(emitted') : emitted'[i].event # "photo_received"
                /\ task'[event'.sid] = Idle
       /\ \A i \in 1..Len(emitted') : emitted'[i].event = "photo_received"
             => /\ event'.name = "upload_photo"
                /\ event'.step = "relay"
                /\ task[event'.sid] = [name |-> "upload_photo", data |-> event'.data]
       /\ \A c \in Conns : (task'[c].name = "upload_photo" /\ task[c] # task'[c])
             => /\ event'.name = "upload_photo"
                /\ event'.step = "check"
                /\ event'.sid = c
                /\ task'[c].data = event'.data
                /\ event'.data.session_id \in DOMAIN active_sessions]_vars

\* an upload for a session id that is not registered although a connection is
\* still in its desktop room has been answered without forwarding
C4_Witness ==
    /\ IsStep("upload_photo", "check")
    /\ event.data.session_id \in SessionIds
    /\ event.data.session_id \notin DOMAIN active_sessions
    /\ \E c \in rooms[<<"desktop", event.data.session_id>>] : conn[c] = "open"
    /\ WellFormed(event.data)
    /\ PhotoIdx = {}
    /\ task[event.sid] = Idle
    /\ SentTo(event.sid, "upload_error") # {}

\* C5 as stated: a valid upload for a session id that was a key of
\* active_sessions when it was checked reaches a connected desktop,
\* unmodified, and the sender receives upload_success.
C5_ValidUploadForwarded ==
    (IsStep("upload_photo", "relay") /\ WellFormed(event.data))
        => /\ \E d \in Conns :
                /\ conn[d] = "open"
                /\ \E i \in SentTo(d, "photo_received") : emitted[i].data = Forwarded(event.data)
           /\ SentTo(event.sid, "upload_success") # {}

\* C5 amended: a valid upload for a session id that is a key of
\* active_sessions when it is checked passes the checks; when it is relayed
\* and no emit raises, every member of room desktop_s at that moment is sent
\* one photo_received with the fields of the upload and the sender
\* upload_success, also when the room is empty by then; when an emit raises,
\* the sender is answered upload_error 'Failed to send photo to desktop' and no
\* upload_success.
C5_ValidUploadForwardedToRoom ==
    (event.name = "upload_photo" /\ WellFormed(event.data)) =>
        LET room == rooms[<<"desktop", event.data.session_id>>]
        IN IF event.step = "check"
           THEN event.data.session_id \in DOMAIN active_sessions
                    => task[event.sid] = [name |-> "upload_photo", data |-> event.data]
           ELSE IF raised = "none"
           THEN /\ \A d \in room :
                     /\ Cardinality(SentTo(d, "photo_received")) = 1
                     /\ \A i \in SentTo(d, "photo_received") :
                            emitted[i].data = Forwarded(event.data)
                /\ \A i \in PhotoIdx : emitted[i].to \in room
                /\ SentTo(event.sid, "upload_success") # {}
                /\ SentTo(event.sid, "upload_error") = {}
           ELSE /\ SentTo(event.sid, "upload_success") = {}
                /\ Cardinality(SentTo(event.sid, "upload_error")) = 1
                /\ \A i \in SentTo(event.sid, "upload_error") :
                       emitted[i].data.message = "Failed to send photo to desktop"

\* a mobile's upload of 2048 declared bytes of image/png has been forwarded
\* to the connected desktop of its session and acknowledged
C5_Witness ==
    /\ IsStep("upload_photo", "relay")
    /\ WellFormed(event.data)
    /\ event.data.file_size = Num(2048)
    /\ raised = "none"
    /\ event.data.session_id \in DOMAIN active_sessions
    /\ active_sessions[event.data.session_id] # event.sid
    /\ conn[active_sessions[event.data.session_id]] = "open"
    /\ SentTo(active_sessions[event.data.session_id], "photo_received") # {}
    /\ SentTo(event.sid, "upload_success") # {}

\* C6: the validation accepts exactly the allowed mime types with a declared
\* size of at most 10 MiB; another mime type is rejected as an invalid file
\* type and an allowed one over 10 MiB as too large.
C6_ValidateAcceptsExactly ==
    v_result # "none" =>
        LET allowed == v_mime \in {"image/jpeg", "image/jpg", "image/png", "image/webp"}
        IN /\ v_result = "ok" <=> (allowed /\ v_size.v <= 10485760)
           /\ ~allowed => v_result = "Invalid file type: " \o v_mime
           /\ (allowed /\ v_size.v > 10485760) => v_result = "File too large (max 10MB)"

\* an upload declaring exactly 10 MiB of an allowed type has been accepted
C6_Witness ==
    /\ v_result = "ok"
    /\ v_mime = "image/webp"
    /\ v_size = Num(10485760)

\* C7: when the sender of an upload is answered upload_error, no
\* photo_received was emitted for that upload.
C7_ErrorMeansNotForwarded ==
    (event.name = "upload_photo" /\ SentTo(event.sid, "upload_error") # {}) => PhotoIdx = {}

\* C8: register_mobile(s) with s unregistered when the handler looks it up is
\* answered 'Desktop not found'; a valid upload for s from a connection in the
\* mobile room of s, while a connection that completed register_desktop(s)
\* is connected, passes the session check, and when it is relayed with that
\* desktop still connected, the desktop receives it and the sender
\* upload_success.
C8_MobileUploadAfterDesktop ==
    /\ (IsStep("register_mobile", "check")
          /\ event.data.session_id \notin DOMAIN active_sessions)
          => emitted = <<[to |-> event.sid, event |-> "registration_error",
                data |-> [message |-> "Desktop not found. Please check if the app is running."]]>>
    /\ (event.name = "upload_photo" /\ WellFormed(event.data)
          /\ event.data.session_id \in SessionIds
          /\ event.sid \in rooms[<<"mobile", event.data.session_id>>]
          /\ event.sid \notin rooms[<<"desktop", event.data.session_id>>])
          => \A d \in rooms[<<"desktop", event.data.session_id>>] :
                (conn[d] = "open" /\ task[d] = Idle)
                   => IF event.step = "check"
                      THEN task[event.sid].name = "upload_photo"
                      ELSE /\ \E i \in SentTo(d, "photo_received") :
                                 emitted[i].data = Forwarded(event.data)
                           /\ SentTo(event.sid, "upload_success") # {}

\* C9: a register_desktop or register_mobile with an empty or missing
\* session_id is answered registration_error 'No session ID provided' and
\* changes neither active_sessions nor any room.
C9_EmptyRegistrationRejected ==
    [][(event'.name \in {"register_desktop", "register_mobile"}
          /\ event'.data.session_id \in {"", Missing})
          => /\ emitted' = <<[to |-> event'.sid, event |-> "registration_error",
                              data |-> [message |-> "No session ID provided"]]>>
             /\ active_sessions' = active_sessions
             /\ key_order' = key_order
             /\ rooms' = rooms
             /\ task'[event'.sid] = Idle]_vars

\* a connection that is the registered desktop of a session has sent a
\* registration with an empty session id and was answered with the error
C9_Witness ==
    /\ event.name \in {"register_desktop", "register_mobile"}
    /\ event.data.session_id = ""
    /\ \E s \in DOMAIN active_sessions : active_sessions[s] = event.sid
    /\ SentTo(event.sid, "registration_error") # {}

\* C10: every handled upload_photo produces exactly one response to its
\* sender, upload_success or upload_error.
C10_ExactlyOneResponse ==
    (event.name = "upload_photo" /\ task[event.sid] = Idle) =>
        Cardinality(SentTo(event.sid, "upload_success") \cup SentTo(event.sid, "upload_error")) = 1

\* C11: a photo_received is emitted only by the relay of an upload_photo that
\* passed its checks, which ends the handler; the relay is one emit to the
\* desktop room of the uploaded session, so that every delivery carries the
\* same data and no connection receives more than one; no other handler (a
\* later registration, connect or disconnect) emits a photo_received.
C11_AtMostOnce ==
    [][(PhotoIdx # {})'
          => /\ event'.name = "upload_photo"
             /\ event'.step = "relay"
             /\ task[event'.sid].name = "upload_photo"
             /\ task'[event'.sid] = Idle
             /\ \A c \in Conns : Cardinality(SentTo(c, "photo_received")') <= 1
             /\ \A i \in 1..Len(emitted') : emitted'[i].event = "photo_received"
                   => /\ emitted'[i].to \in rooms[<<"desktop", event'.data.session_id>>]
                      /\ emitted'[i].data = emitted'[1].data]_vars

\* an upload has been forwarded to a desktop room of two connections, once each
C11_Witness ==
    /\ IsStep("upload_photo", "relay")
    /\ Cardinality(PhotoIdx) = 2
    /\ \A c \in Conns : Cardinality(SentTo(c, "photo_received")) = 1

\* C12: the active_sessions count of GET /health is the number of session ids
\* that have a connection registered as their desktop (its register_desktop
\* handled to the end) and still connected.
C12_HealthCount ==
    event.name = "health" =>
        emitted[1].data.active_sessions =
            Cardinality({s \in SessionIds :
                \E c \in Conns :
                    /\ conn[c] = "open"
                    /\ c \in rooms[<<"desktop", s>>]
                    /\ task[c] # [name |-> "register_desktop", data |-> [session_id |-> s]]})

\* C13: an upload is answered with the message of the first check it fails, in
\* the order session, photo data, mime type, size.
C13_CheckPrecedence ==
    IsStep("upload_photo", "check") =>
        LET d == event.data
            Err(m) == emitted = <<[to |-> event.sid, event |-> "upload_error",
                                   data |-> [message |-> m]]>>
            sessBad == d.session_id \in {"", Missing} \/ d.session_id \notin DOMAIN active_sessions
            photoBad == d.photo \in {"", Missing}
            mimeBad == d.mime_type \notin {"image/jpeg", "image/jpg", "image/png", "image/webp", Missing}
            sizeBad == d.file_size.kind = "int" /\ d.file_size.v > 10485760
        IN /\ sessBad => Err("Desktop not connected. Please ensure the desktop app is running.")
           /\ (~sessBad /\ photoBad) => Err("No photo data received")
           /\ (~sessBad /\ ~photoBad /\ mimeBad) => Err("Invalid file type: " \o d.mime_type)
           /\ (~sessBad /\ ~photoBad /\ ~mimeBad /\ sizeBad) => Err("File too large (max 10MB)")

\* an upload for a registered session without photo data, of type image/gif and
\* over the size limit has been answered 'No photo data received'
C13_Witness ==
    /\ IsStep("upload_photo", "check")
    /\ event.data.session_id \in DOMAIN active_sessions
    /\ event.data.photo = ""
    /\ event.data.mime_type = "image/gif"
    /\ event.data.file_size = Num(10485761)
    /\ SentTo(event.sid, "upload_error") = {1}
    /\ emitted[1].data.message = "No photo data received"

\* the elements of a sequence
Range(q) == {q[i] : i \in 1..Len(q)}

\* C14: when handlers run one at a time, the disconnect handler of connection
\* c has listed, when its iteration over active_sessions ends, exactly the
\* session ids whose entry holds c, each deletion removes
\* one of these entries and nothing else, no step of it raises, and when it has
\* ended no entry holds c; every other entry is as it was.
C14_DisconnectRemovesExactlyOwn ==
    [][event'.name = "disconnect" =>
          /\ raised' = "none"
          /\ (event'.step = "scan" /\ scan'[event'.sid].pc = "del") =>
                Range(scan'[event'.sid].list) =
                    {s \in DOMAIN active_sessions : active_sessions[s] = event'.sid}
          /\ event'.step # "del" => active_sessions' = active_sessions
          /\ event'.step = "del" =>
                \A s \in SessionIds :
                    IF s = event'.data.session_id
                    THEN Holder(active_sessions, s) = event'.sid /\ s \notin DOMAIN active_sessions'
                    ELSE Holder(active_sessions', s) = Holder(active_sessions, s)
          /\ event'.step = "return" =>
                \A s \in SessionIds : Holder(active_sessions', s) # event'.sid]_vars

\* the disconnect handler of a connection that held one session id has removed
\* it and left the entry of the other session id, held by another connection
C14_Witness ==
    /\ IsStep("disconnect", "del")
    /\ event.data.session_id \notin DOMAIN active_sessions
    /\ scan[event.sid] = ScanOver
    /\ \E s \in DOMAIN active_sessions :
          /\ active_sessions[s] # event.sid
          /\ conn[active_sessions[s]] = "open"
          /\ event.sid \in rooms[<<"desktop", s>>]

\* C15: with the steps of handle_disconnect interleaved with other handlers, a
\* deletion made by the disconnect handler of a connection removes only an
\* entry whose value is that connection.
C15_DeleteOnlyOwnEntries ==
    [][(event'.name = "disconnect" /\ event'.step = "del") =>
          \A s \in DOMAIN active_sessions :
              s \notin DOMAIN active_sessions' => active_sessions[s] = event'.sid]_vars

\* C16: every value of active_sessions is a connection that is connected or
\* whose disconnect is still being handled, also when the register_desktop
\* handler of a connection is interleaved with its disconnect handler.
C16_NoDanglingHandle ==
    \A s \in DOMAIN active_sessions : conn[active_sessions[s]] \in {"open", "closing"}

\* C17: a connection is the value of at most one entry of active_sessions and
\* a member of at most one room (one registration, as desktop or as mobile).
C17_OneShotRegistration ==
    \A c \in Conns :
        /\ Cardinality({s \in DOMAIN active_sessions : active_sessions[s] = c}) <= 1
        /\ Cardinality({r \in RoomKeys : c \in rooms[r]}) <= 1

\* C18: register_mobile(s) with a non-empty s adds the sender to room mobile_s
\* and changes no other room, whether or not s is registered; when it then
\* looks s up it answers registration_success if s is a key of active_sessions
\* at that moment and registration_error 'Desktop not found' if not; no step of
\* it changes active_sessions.
C18_RegisterMobile ==
    [][(event'.name = "register_mobile" /\ event'.data.session_id \in SessionIds) =>
          LET s == event'.data.session_id
              known == s \in DOMAIN active_sessions
          IN /\ active_sessions' = active_sessions
             /\ key_order' = key_order
             /\ event'.step = "join" =>
                   /\ rooms' = [r \in RoomKeys |->
                            IF r = <<"mobile", s>> THEN rooms[r] \cup {event'.sid} ELSE rooms[r]]
                   /\ emitted' = <<>>
                   /\ task'[event'.sid] = [name |-> "register_mobile", data |-> event'.data]
             /\ event'.step = "check" =>
                   /\ rooms' = rooms
                   /\ task[event'.sid] = [name |-> "register_mobile", data |-> event'.data]
                   /\ task'[event'.sid] = Idle
                   /\ emitted' = <<[to |-> event'.sid,
                              event |-> IF known THEN "registration_success"
                                                 ELSE "registration_error",
                              data |-> [message |->
                                  IF known THEN "Connected to desktop"
                                  ELSE "Desktop not found. Please check if the app is running."]]>>]_vars

\* a connection has registered as mobile of a session without desktop, in a
\* room that had a member already: both are in the mobile room and the sender
\* was answered 'Desktop not found'
C18_Witness ==
    /\ IsStep("register_mobile", "check")
    /\ event.data.session_id = "s1"
    /\ "s1" \notin DOMAIN active_sessions
    /\ event.sid \in rooms[<<"mobile", "s1">>]
    /\ Cardinality(rooms[<<"mobile", "s1">>]) = 2
    /\ SentTo(event.sid, "registration_error") = {1}

\* C19: no step of the handler of upload_photo changes anything but what it
\* emits and its own position: the session table, the rooms and the
\* connections are as before, on every outcome, and an upload that was
\* answered leaves the connection as it was before it; so a valid upload of
\* the same connection that follows a failed one passes the checks and goes on
\* to the relay.
C19_UploadChangesNothing ==
    [][event'.name = "upload_photo" =>
          /\ active_sessions' = active_sessions
          /\ key_order' = key_order
          /\ rooms' = rooms
          /\ conn' = conn
          /\ scan' = scan
          /\ \A c \in Conns \ {event'.sid} : task'[c] = task[c]
          /\ (emitted' # <<>> \/ raised' # "none") => task'[event'.sid] = Idle
          /\ (/\ event.name = "upload_photo"
              /\ event.sid = event'.sid
              /\ (SentTo(event.sid, "upload_error") # {} \/ raised = "TypeError")
              /\ event'.step = "check"
              /\ WellFormed(event'.data)
              /\ event'.data.session_id \in DOMAIN active_sessions)
             => /\ task'[event'.sid] = [name |-> "upload_photo", data |-> event'.data]
                /\ emitted' = <<>>]_vars

\* the relay of an upload has raised and the sender was answered upload_error:
\* the session is still registered and its desktop still in the room
C19_Witness ==
    /\ IsStep("upload_photo", "relay")
    /\ raised = "relay"
    /\ event.data.session_id \in DOMAIN active_sessions
    /\ SentTo(event.sid, "upload_error") # {}
    /\ active_sessions[event.data.session_id] \in rooms[<<"desktop", event.data.session_id>>]
    /\ task[event.sid] = Idle

\* an outcome with the sender c of the replies made anonymous
Anonymous(out, c) ==
    [i \in 1..Len(out) |->
         IF out[i].event = "photo_received" THEN out[i]
         ELSE [out[i] EXCEPT !.to = IF @ = c THEN 0 ELSE @]]

\* C20: what a step of the handler of upload_photo emits (the replies to the
\* sender, the photo_received deliveries) is what the same payload produces, in
\* the same state, when any other connection sends it, whatever the rooms the
\* two connections are in.
C20_OutcomeIndependentOfSender ==
    event.name = "upload_photo" =>
        \A c \in Conns \ {event.sid} :
            LET other == IF event.step = "check" THEN CheckOutcome(c, event.data)
                         ELSE RelayOutcome(c, event.data, raised)
            IN /\ Anonymous(other, c) = Anonymous(emitted, event.sid)
               /\ event.step = "check" =>
                     (task[event.sid].name = "upload_photo" <=> UploadVerdict(event.data) = "ok")

\* a connection that is in no room has uploaded for s1 and its upload passed
\* the checks, while the other connection, the desktop of s1, is connected
C20_Witness ==
    /\ IsStep("upload_photo", "check")
    /\ event.data.session_id = "s1"
    /\ \A r \in RoomKeys : event.sid \notin rooms[r]
    /\ task[event.sid].name = "upload_photo"
    /\ \E c \in Conns \ {event.sid} :
          conn[c] = "open" /\ c \in rooms[<<"desktop", "s1">>] /\ active_sessions["s1"] = c

\* C21: a connection enters the desktop room of session s only by its own
\* register_desktop(s) and is in no room once its disconnect is handled; the
\* photo_received of an upload for s are emitted to members of that room only,
\* none of which has its disconnect handled. So a connection that only
\* registered as mobile or uploaded, or that registered as desktop of other
\* sessions only, receives none.
C21_SessionIsolation ==
    [][/\ \A s \in SessionIds : \A c \in rooms'[<<"desktop", s>>] \ rooms[<<"desktop", s>>] :
             /\ event'.name = "register_desktop"
             /\ event'.step = "join"
             /\ event'.sid = c
             /\ event'.data.session_id = s
       /\ (event'.name = "disconnect" /\ event'.step = "return")
             => \A r \in RoomKeys : event'.sid \notin rooms'[r]
       /\ \A i \in 1..Len(emitted') :
             emitted'[i].event = "photo_received" =>
                 /\ event'.name = "upload_photo"
                 /\ emitted'[i].to \in rooms[<<"desktop", event'.data.session_id>>]
                 /\ conn[emitted'[i].to] # "closed"]_vars

\* an upload for s1 has reached the desktop of s1, and nothing was delivered
\* to the sender, in the mobile room of s1 and the desktop room of s2
C21_Witness ==
    /\ IsStep("upload_photo", "relay")
    /\ event.data.session_id = "s1"
    /\ PhotoIdx # {}
    /\ event.sid \in rooms[<<"mobile", "s1">>]
    /\ event.sid \in rooms[<<"desktop", "s2">>]
    /\ event.sid \notin rooms[<<"desktop", "s1">>]
    /\ conn[event.sid] = "open"
    /\ SentTo(event.sid, "photo_received") = {}

\* the payload of the register_desktop the desktop client emits on every
\* connect: the session id it generated when it started
on_connect(session_id) == [session_id |-> session_id]

\* the disconnect handler of a connection A that had registered as desktop of
\* session s has just ended, and s is registered
OldDesktopGone(s) ==
    /\ IsStep("disconnect", "return")
    /\ <<"desktop", s>> \in event.data.left_rooms
    /\ s \in DOMAIN active_sessions

\* C22 as stated: the registration the client sends on connect makes the new
\* connection B the holder of s; the disconnect handler of the old connection
\* A, when it scans active_sessions after that, does not list s and deletes
\* only what it listed, so that s is still B's when it has ended, B being
\* connected and in the desktop room; a valid upload for s handled then passes
\* the checks, and relayed while B is connected it is forwarded to B and
\* answered upload_success.
C22_ReconnectKeepsSession ==
    [][/\ \A s \in SessionIds :
             (event'.name = "register_desktop" /\ event'.step = "set"
                 /\ event'.data = on_connect(s))
             => Holder(active_sessions', s) = event'.sid
       /\ event'.name = "disconnect" =>
             \A s \in SessionIds :
                 (event'.sid \in rooms[<<"desktop", s>>]
                     /\ Holder(active_sessions, s) \notin {0, event'.sid}
                     /\ s \notin Range(scan[event'.sid].list))
                 => /\ s \notin Range(scan'[event'.sid].list)
                    /\ Holder(active_sessions', s) = Holder(active_sessions, s)
                    /\ conn'[active_sessions[s]] = conn[active_sessions[s]]
                    /\ (active_sessions[s] \in rooms[<<"desktop", s>>]
                           => active_sessions[s] \in rooms'[<<"desktop", s>>])
       /\ \A s \in SessionIds :
             (OldDesktopGone(s) /\ event'.name = "upload_photo" /\ event'.step = "check"
                 /\ WellFormed(event'.data) /\ event'.data.session_id = s)
             => task'[event'.sid] = [name |-> "upload_photo", data |-> event'.data]
       /\ (event'.name = "upload_photo" /\ event'.step = "relay"
             /\ WellFormed(event'.data)
             /\ Holder(active_sessions, event'.data.session_id) # 0)
             => LET B == active_sessions[event'.data.session_id]
                IN (conn[B] = "open" /\ B \in rooms[<<"desktop", event'.data.session_id>>])
                      => /\ \E i \in 1..Len(emitted') :
                               /\ emitted'[i].to = B
                               /\ emitted'[i].event = "photo_received"
                               /\ emitted'[i].data = Forwarded(event'.data)
                         /\ \E i \in 1..Len(emitted') :
                               /\ emitted'[i].to = event'.sid
                               /\ emitted'[i].event = "upload_success"]_vars

\* C22 amended: the same, unless an emit inside the try block of that upload
\* raises; then the sender is answered upload_error and not upload_success.
C22_ReconnectKeepsSessionUnlessRaise ==
    [][/\ \A s \in SessionIds :
             (event'.name = "register_desktop" /\ event'.step = "set"
                 /\ event'.data = on_connect(s))
             => Holder(active_sessions', s) = event'.sid
       /\ event'.name = "disconnect" =>
             \A s \in SessionIds :
                 (event'.sid \in rooms[<<"desktop", s>>]
                     /\ Holder(active_sessions, s) \notin {0, event'.sid}
                     /\ s \notin Range(scan[event'.sid].list))
                 => /\ s \notin Range(scan'[event'.sid].list)
                    /\ Holder(active_sessions', s) = Holder(active_sessions, s)
                    /\ conn'[active_sessions[s]] = conn[active_sessions[s]]
                    /\ (active_sessions[s] \in rooms[<<"desktop", s>>]
                           => active_sessions[s] \in rooms'[<<"desktop", s>>])
       /\ \A s \in SessionIds :
             (OldDesktopGone(s) /\ event'.name = "upload_photo" /\ event'.step = "check"
                 /\ WellFormed(event'.data) /\ event'.data.session_id = s)
             => task'[event'.sid] = [name |-> "upload_photo", data |-> event'.data]
       /\ (event'.name = "upload_photo" /\ event'.step = "relay"
             /\ WellFormed(event'.data)
             /\ Holder(active_sessions, event'.data.session_id) # 0)
             => LET B == active_sessions[event'.data.session_id]
                IN (conn[B] = "open" /\ B \in rooms[<<"desktop", event'.data.session_id>>])
                      => IF raised' = "none"
                         THEN /\ \E i \in 1..Len(emitted') :
                                    /\ emitted'[i].to = B
                                    /\ emitted'[i].event = "photo_received"
                                    /\ emitted'[i].data = Forwarded(event'.data)
                              /\ \E i \in 1..Len(emitted') :
                                    /\ emitted'[i].to = event'.sid
                                    /\ emitted'[i].event = "upload_success"
                         ELSE /\ \A i \in 1..Len(emitted') :
                                    ~(emitted'[i].to = event'.sid
                                        /\ emitted'[i].event = "upload_success")
                              /\ \E i \in 1..Len(emitted') :
                                    /\ emitted'[i].to = event'.sid
                                    /\ emitted'[i].event = "upload_error"]_vars

\* the disconnect handler of the old connection of the desktop of s1 has
\* scanned active_sessions after the new connection registered s1 with the
\* payload of the client: it found nothing to remove, and the entry of s1 is
\* the new connection, connected and in the desktop room
C22_Witness ==
    /\ IsStep("disconnect", "scan")
    /\ raised = "none"
    /\ scan[event.sid].pc = "del"
    /\ scan[event.sid].list = <<>>
    /\ event.sid \in rooms[<<"desktop", "s1">>]
    /\ on_connect("s1") \in RegisterData
    /\ "s1" \in DOMAIN active_sessions
    /\ active_sessions["s1"] # event.sid
    /\ conn[active_sessions["s1"]] = "open"
    /\ active_sessions["s1"] \in rooms[<<"desktop", "s1">>]
    /\ task[active_sessions["s1"]] = Idle


TypeOK ==
    /\ conn \in [Conns -> {"new", "open", "closing", "closed"}]
    /\ DOMAIN active_sessions \subseteq SessionIds
    /\ \A s \in DOMAIN active_sessions : active_sessions[s] \in Conns
    /\ {key_order[i] : i \in 1..Len(key_order)} \ {Deleted} = DOMAIN active_sessions
    /\ \A i, j \in 1..Len(key_order) :
          (key_order[i] = key_order[j] /\ key_order[i] # Deleted) => i = j
    /\ dk_usable \in Nat
    /\ rooms \in [RoomKeys -> SUBSET Conns]
    /\ \A r \in RoomKeys : \A c \in rooms[r] : conn[c] \in {"open", "closing"}
    /\ \A c \in Conns : task[c].name \in {"idle", "register_desktop", "register_mobile", "upload_photo"}
    /\ \A c \in Conns : scan[c].pc \in {"none", "scan", "del", "return"}
    /\ \A c \in Conns : scan[c].len \in 0..scan[c].size
    /\ \A c \in Conns : scan[c] # NoScan => conn[c] = "closing"
    /\ handled \in 0..MaxEvents
    /\ raised \in {"none", "relay", "ack", "TypeError", "KeyError", "RuntimeError"}
====
